---- MODULE Spec2Model ----
(***************************************************************************)
(* Model of reptool / rtorrent_status_file_modifier: the rewrite of the    *)
(* length-prefixed field  :<key><N>:<value>  inside rtorrent status files  *)
(* (replace_string_in_file), the batch driver (replace_files) and the      *)
(* option construction of both main functions.                             *)
(*                                                                         *)
(* Strings are sequences of one-character strings, so that lengths,        *)
(* substring search, decimal formatting and the regular expression are     *)
(* computed character by character as the code computes them.              *)
(* The file system is reliable (no I/O error is modelled) and the output   *)
(* directory is a directory other than the input directory.                *)
(***************************************************************************)
EXTENDS Integers, Sequences, FiniteSets, TLC

\* ------------------------------------------------------------------------
\* String primitives (Rust str methods used by the code)
\* ------------------------------------------------------------------------

Digits == <<"0", "1", "2", "3", "4", "5", "6", "7", "8", "9">>

IsDigit(c) == \E i \in 1..10 : Digits[i] = c

DigitVal(c) == (CHOOSE i \in 1..10 : Digits[i] = c) - 1

I32Max == 2147483647

\* s[i..] starts with t  (i is 1-based)
StartsWithAt(s, t, i) ==
    /\ i >= 1
    /\ i + Len(t) - 1 <= Len(s)
    /\ \A j \in 1..Len(t) : s[i + j - 1] = t[j]

\* str::ends_with
ends_with(s, t) ==
    /\ Len(t) <= Len(s)
    /\ StartsWithAt(s, t, Len(s) - Len(t) + 1)

\* positions at which t occurs in s, at or after position from
Occurrences(s, t, from) == {i \in from..(Len(s) + 1) : StartsWithAt(s, t, i)}

Min(S) == CHOOSE x \in S : \A y \in S : x <= y

\* str::contains
contains(s, t) == Occurrences(s, t, 1) # {}

\* str::replacen(from, to, 1): the first occurrence only
replacen(s, from, to) ==
    IF ~contains(s, from) THEN s
    ELSE LET i == Min(Occurrences(s, from, 1))
         IN  SubSeq(s, 1, i - 1) \o to \o SubSeq(s, i + Len(from), Len(s))

\* str::replace(from, to): every non-overlapping occurrence, left to right
\* (from is never empty here: it is the text of a regex match)
RECURSIVE ReplaceFrom(_, _, _, _)
ReplaceFrom(s, from, to, i) ==
    IF Occurrences(s, from, i) = {} \/ Len(from) = 0
    THEN SubSeq(s, i, Len(s))
    ELSE LET j == Min(Occurrences(s, from, i))
         IN  SubSeq(s, i, j - 1) \o to \o ReplaceFrom(s, from, to, j + Len(from))

replace_all(s, from, to) == ReplaceFrom(s, from, to, 1)

\* i32::to_string
RECURSIVE NatToString(_)
NatToString(n) ==
    IF n < 10 THEN <<Digits[n + 1]>>
    ELSE NatToString(n \div 10) \o <<Digits[(n % 10) + 1]>>

to_string(n) == IF n < 0 THEN <<"-">> \o NatToString(0 - n) ELSE NatToString(n)

\* decimal value of a run of digits
RECURSIVE DecimalValue(_)
DecimalValue(d) ==
    IF Len(d) = 0 THEN 0
    ELSE 10 * DecimalValue(SubSeq(d, 1, Len(d) - 1)) + DigitVal(d[Len(d)])

RECURSIVE StripZeros(_)
StripZeros(d) ==
    IF Len(d) > 1 /\ d[1] = "0" THEN StripZeros(SubSeq(d, 2, Len(d))) ELSE d

\* str::parse::<i32>() fails (and the unwrap/expect panics) above i32::MAX
ParseFails(d) ==
    LET z == StripZeros(d)
    IN  \/ Len(z) > 10
        \/ /\ Len(z) = 10
           /\ \/ DecimalValue(SubSeq(z, 1, 9)) > I32Max \div 10
              \/ /\ DecimalValue(SubSeq(z, 1, 9)) = I32Max \div 10
                 /\ DigitVal(z[10]) > I32Max % 10

parse(d) == DecimalValue(d)

\* i32 addition, two's complement wrap
i32_add(a, b) ==
    IF b > 0 /\ a > I32Max - b
    THEN ((a - I32Max) + (b - I32Max)) - 2
    ELSE IF b < 0 /\ a < (0 - I32Max - 1) - b
    THEN ((a + I32Max) + (b + I32Max)) + 2
    ELSE a + b

\* ------------------------------------------------------------------------
\* The regular expression  :(key)(\d+):([^:]+)
\* ------------------------------------------------------------------------

RECURSIVE DigitRun(_, _)
DigitRun(s, i) == IF i <= Len(s) /\ IsDigit(s[i]) THEN 1 + DigitRun(s, i + 1) ELSE 0

RECURSIVE NonColonRun(_, _)
NonColonRun(s, i) == IF i <= Len(s) /\ s[i] # ":" THEN 1 + NonColonRun(s, i + 1) ELSE 0

\* does the expression match at position p
IsMatchAt(s, k, p) ==
    LET h  == p + 1 + Len(k)
        dl == DigitRun(s, h)
    IN  /\ p <= Len(s)
        /\ s[p] = ":"
        /\ StartsWithAt(s, k, p + 1)
        /\ dl >= 1
        /\ h + dl <= Len(s)
        /\ s[h + dl] = ":"
        /\ NonColonRun(s, h + dl + 1) >= 1

\* the match at p: its span and the three capture groups
MatchAt(s, k, p) ==
    LET h  == p + 1 + Len(k)
        dl == DigitRun(s, h)
        vl == NonColonRun(s, h + dl + 1)
    IN  [start |-> p,
         stop  |-> h + dl + vl,
         g1    |-> k,
         g2    |-> SubSeq(s, h, h + dl - 1),
         g3    |-> SubSeq(s, h + dl + 1, h + dl + vl)]

\* Regex::captures_iter: successive non-overlapping matches, leftmost first
RECURSIVE CapturesFrom(_, _, _)
CapturesFrom(s, k, from) ==
    IF from > Len(s) THEN <<>>
    ELSE IF IsMatchAt(s, k, from)
    THEN LET m == MatchAt(s, k, from)
         IN  <<m>> \o CapturesFrom(s, k, m.stop + 1)
    ELSE CapturesFrom(s, k, from + 1)

captures_iter(s, k) == CapturesFrom(s, k, 1)

MatchText(s, m) == SubSeq(s, m.start, m.stop)


\* ------------------------------------------------------------------------
\* Literals of the program
\* ------------------------------------------------------------------------

directory == <<"d", "i", "r", "e", "c", "t", "o", "r", "y">>

torrent == <<"t", "o", "r", "r", "e", "n", "t">>

rtorrent == <<"r">> \o torrent

libtorrent_resume ==
    <<"l", "i", "b">> \o torrent \o <<"_", "r", "e", "s", "u", "m", "e">>

extensions == <<rtorrent, torrent, libtorrent_resume>>

torrent_rtorrent == <<".">> \o torrent \o <<".">> \o rtorrent

EmptyString == <<>>

\* ------------------------------------------------------------------------
\* Bounds and input sets
\* ------------------------------------------------------------------------

MaxChunks == 3

MaxFiles == 2

Fld(k, d, v) == <<":">> \o k \o d \o <<":">> \o v

RECURSIVE Rep(_, _)
Rep(c, n) == IF n = 0 THEN <<>> ELSE <<c>> \o Rep(c, n - 1)

\* pieces of file content: well-formed fields, a field whose declared
\* length is too small, a field of another key, a stray byte
Chunks ==
    { <<"b">>,
      Fld(directory, <<"1">>, <<"a">>),
      Fld(directory, <<"2">>, <<"a", "b">>),
      Fld(directory, <<"3">>, <<"a", "b", "a">>),
      Fld(directory, <<"1">>, <<"a", "b">>),
      Fld(<<"e">>, <<"1">>, <<"a">>) }

RECURSIVE ChunkSeqs(_)
ChunkSeqs(n) ==
    IF n = 0 THEN {<<>>}
    ELSE LET S == ChunkSeqs(n - 1)
         IN  S \cup {c \o t : c \in Chunks, t \in S}

GenContents == ChunkSeqs(MaxChunks)

Searches == {<<>>, <<"a">>, <<"b">>, <<"a", "b">>}

Replaces == {<<>>, <<"c">>, <<"c", "c", "c">>, <<"c", ":">>}

\* value of 20 bytes, search of 3 bytes, replacement of 10 bytes
Value20 == <<"/", "a", "b">> \o Rep("x", 14) \o <<"/", "a", "b">>

Search3 == <<"/", "a", "b">>

Replace10 == <<"/">> \o Rep("c", 9)

\* the end-to-end scenario of the specification
OldPathX == <<"/", "o", "l", "d", "/", "p", "a", "t", "h", "X">>

Old == <<"/", "o", "l", "d">>

NewRoot == <<"/", "n", "e", "w", "/", "r", "o", "o", "t">>

ExampleInputs ==
    { <<Fld(directory, <<"2", "0">>, Value20), Search3, Replace10>>,
      <<Fld(directory, <<"2", "0">>, Value20), Search3, <<>>>>,
      <<Fld(directory, <<"9">>, OldPathX), Old, NewRoot>> }

FnInputs == (GenContents \X Searches \X Replaces) \cup ExampleInputs

\* ------------------------------------------------------------------------
\* State
\* ------------------------------------------------------------------------

VARIABLES
    program,        \* which binary runs ("none": replace_string_in_file alone)
    args,           \* command line: [o, k, search, replace]
    option,         \* RepToolOption
    copy_enable,    \* copy_enable / option.output_path != ""
    dirs,           \* paths that are directories
    fs,             \* regular files: path -> content
    fs0,            \* the files as they were before the run
    files,          \* entries of read_dir not yet visited
    bpc,            \* position in main / replace_files
    is_found_files, \* is_found of replace_files
    warned,         \* warn!("No matching found.") was emitted
    reports,        \* the values replace_string_in_file returned so far
    batch_result,   \* value returned by replace_files to main
    file_path,      \* arguments of replace_string_in_file
    key,
    find,
    replace,
    pc,             \* position in replace_string_in_file
    content,        \* content read from the file
    find_content,   \* text of the first match
    idx,            \* captures already visited by the for loop
    is_found,       \* is_found of replace_string_in_file
    update_string,  \* update_string of the last eligible capture
    writes,         \* number of write_all calls on the file
    result          \* value returned by replace_string_in_file

fnvars == <<file_path, key, find, replace, pc, content, find_content, idx,
            is_found, update_string, writes, result>>

batchvars == <<program, args, option, copy_enable, dirs, fs0, files, bpc,
               is_found_files, warned, reports, batch_result>>

vars == <<program, args, option, copy_enable, dirs, fs, fs0, files, bpc,
          is_found_files, warned, reports, batch_result, file_path, key, find, replace, pc,
          content, find_content, idx, is_found, update_string, writes, result>>

None == <<"<none>">>

\* ------------------------------------------------------------------------
\* replace_string_in_file
\* ------------------------------------------------------------------------

\* variant: the difference taken the other way round
offset_size_Swapped(f, r) == Len(f) - Len(r)

offset_size(f, r) == Len(r) - Len(f)

new_size(cap, f, r) == i32_add(parse(cap.g2), offset_size(f, r))

new_path(cap, f, r) == replacen(cap.g3, f, r)

build_update_string(cap, f, r) ==
    <<":">> \o cap.g1 \o to_string(new_size(cap, f, r)) \o <<":">>
        \o new_path(cap, f, r)

modified_content(c, fc, upd) == replace_all(c, fc, upd)

\* variant: the value is only long enough to hold the search string
Eligible_LengthOnly(cap, f) == Len(cap.g3) >= Len(f)

Eligible(cap, f) == contains(cap.g3, f)

\* open the file, read it, and take the text of the first match; the
\* unwrap/expect on the absent first match panics
Open ==
    /\ pc = "start"
    /\ content' = fs[file_path]
    /\ LET caps == captures_iter(fs[file_path], key)
       IN  IF caps = <<>>
           THEN /\ pc' = "panic"
                /\ find_content' = find_content
           ELSE /\ pc' = "loop"
                /\ find_content' = MatchText(fs[file_path], caps[1])
    /\ is_found' = FALSE
    /\ idx' = 0
    /\ UNCHANGED <<batchvars, fs, file_path, key, find, replace,
                   update_string, writes, result>>

\* one iteration of  for cap in re.captures_iter(&content)
Iterate ==
    /\ pc = "loop"
    /\ idx < Len(captures_iter(content, key))
    /\ LET cap == captures_iter(content, key)[idx + 1]
       IN  IF ~Eligible(cap, find)
           THEN /\ idx' = idx + 1
                /\ UNCHANGED <<pc, is_found, update_string, fs, writes>>
           ELSE IF ParseFails(cap.g2)
           THEN /\ pc' = "panic"
                /\ is_found' = TRUE
                /\ UNCHANGED <<idx, update_string, fs, writes>>
           ELSE LET upd == build_update_string(cap, find, replace)
                IN  /\ is_found' = TRUE
                    /\ update_string' = upd
                    /\ fs' = [fs EXCEPT ![file_path] =
                                 modified_content(content, find_content, upd)]
                    /\ writes' = writes + 1
                    /\ idx' = idx + 1
                    /\ pc' = pc
    /\ UNCHANGED <<batchvars, file_path, key, find, replace, content,
                   find_content, result>>

\* Ok(is_found)
Return ==
    /\ pc = "loop"
    /\ idx = Len(captures_iter(content, key))
    /\ result' = is_found
    /\ pc' = "done"
    /\ UNCHANGED <<batchvars, fs, file_path, key, find, replace, content,
                   find_content, idx, is_found, update_string, writes>>

\* replace_string_in_file on one file, for every input of FnInputs
InitFn ==
    /\ program = "none"
    /\ args = None
    /\ option = None
    /\ copy_enable = FALSE
    /\ dirs = {}
    /\ files = {}
    /\ bpc = "single"
    /\ is_found_files = FALSE
    /\ warned = FALSE
    /\ reports = {}
    /\ batch_result = None
    /\ file_path = <<"f">>
    /\ key = directory
    /\ \E inp \in FnInputs :
          /\ fs = [p \in {<<"f">>} |-> inp[1]]
          /\ find = inp[2]
          /\ replace = inp[3]
    /\ fs0 = fs
    /\ pc = "start"
    /\ content = <<>>
    /\ find_content = <<>>
    /\ idx = 0
    /\ is_found = FALSE
    /\ update_string = <<>>
    /\ writes = 0
    /\ result = None

NextFn == Open \/ Iterate \/ Return

Spec == InitFn /\ [][NextFn]_vars


\* ------------------------------------------------------------------------
\* Properties of replace_string_in_file (specification Spec)
\* ------------------------------------------------------------------------

\* the fields of the file as it was before the call
Caps0 == captures_iter(fs0[file_path], key)

\* the fields of the file as it is now
Rescan == captures_iter(fs[file_path], key)

Returned == pc = "done"

Consistent(c) == ~ParseFails(c.g2) /\ DecimalValue(c.g2) = Len(c.g3)

AllConsistent == \A i \in 1..Len(Caps0) : Consistent(Caps0[i])

EligibleSet == {i \in 1..Len(Caps0) : contains(Caps0[i].g3, find)}

\* signed decimal reading of a length marker
SignedValue(d) ==
    IF Len(d) > 0 /\ d[1] = "-"
    THEN 0 - DecimalValue(SubSeq(d, 2, Len(d)))
    ELSE DecimalValue(d)

\* v2 is v with exactly its first occurrence of f replaced by r
FirstOccurrenceReplaced(v, f, r, v2) ==
    \E i \in 1..(Len(v) + 1) :
        /\ StartsWithAt(v, f, i)
        /\ \A j \in 1..(i - 1) : ~StartsWithAt(v, f, j)
        /\ v2 = SubSeq(v, 1, i - 1) \o r \o SubSeq(v, i + Len(f), Len(v))

\* u is  :<k><N2>:<v2>  with N2 = n + |r| - |f| and v2 as above
HasShape(u, k, n, v, f, r) ==
    LET h == 1 + Len(k)
    IN  /\ StartsWithAt(u, <<":">> \o k, 1)
        /\ Occurrences(u, <<":">>, h + 1) # {}
        /\ LET q == Min(Occurrences(u, <<":">>, h + 1))
           IN  /\ q > h + 1
               /\ SignedValue(SubSeq(u, h + 1, q - 1)) = n + Len(r) - Len(f)
               /\ FirstOccurrenceReplaced(v, f, r, SubSeq(u, q + 1, Len(u)))

\* the capture the for loop visited last
LastCap == Caps0[idx]

LastEligible ==
    /\ pc \in {"loop", "done"}
    /\ idx >= 1
    /\ contains(LastCap.g3, find)

\* a field of declared length 0 and empty value at position p of s
EmptyFieldAt(s, k, p) ==
    LET hdr == <<":">> \o k \o <<"0", ":">>
    IN  /\ StartsWithAt(s, hdr, p)
        /\ (p + Len(hdr) > Len(s) \/ s[p + Len(hdr)] = ":")

\* C1: when every field keyed by key declares the byte length of its value
\* and the call returns matched = true, scanning the written content again
\* finds the rewritten field, at the place it was written, with a declared
\* length equal to the byte length of its value; a field emptied by the
\* rewrite counts when it declares length 0 (stated for a non-empty search).
C1_LengthInvariant ==
    (Returned /\ result = TRUE /\ AllConsistent /\ find # <<>>) =>
        \/ \E j \in 1..Len(Rescan) :
              /\ Rescan[j].start = Caps0[1].start
              /\ Consistent(Rescan[j])
        \/ EmptyFieldAt(fs[file_path], key, Caps0[1].start)

\* C2: the field reconstructed for an eligible field :<key><N>:<value> is
\* :<key><N'>:<value'> with N' = N + |replace| - |search| and value' the
\* value with only its first occurrence of search replaced.
C2_RewrittenShape ==
    LastEligible =>
        HasShape(update_string, key, DecimalValue(LastCap.g2), LastCap.g3,
                 find, replace)

\* value length 20, search length 3, replace length 10: declared length 27,
\* and the second occurrence of search in the value is kept
C2_Witness ==
    /\ Returned
    /\ LastEligible
    /\ LastCap.g2 = <<"2", "0">>
    /\ Len(LastCap.g3) = 20
    /\ Len(find) = 3
    /\ Len(replace) = 10
    /\ update_string =
           <<":">> \o directory \o <<"2", "7", ":">> \o Replace10
               \o Rep("x", 14) \o Search3

\* C3: when fields keyed by key exist but no value contains search, the
\* call returns matched = false, never writes, and the file is unchanged.
C3_NoMatchNoWrite ==
    (pc # "start" /\ Caps0 # <<>> /\ EligibleSet = {}) =>
        /\ pc \in {"loop", "done"}
        /\ writes = 0
        /\ fs = fs0
        /\ Returned => result = FALSE

C3_Witness ==
    /\ Returned
    /\ Len(Caps0) >= 2
    /\ EligibleSet = {}
    /\ result = FALSE
    /\ writes = 0

\* content c with every eligible field rewritten at its own position
RECURSIVE RewriteEach(_, _, _, _, _)
RewriteEach(c, caps, i, f, r) ==
    IF i > Len(caps) THEN SubSeq(c, IF i = 1 THEN 1 ELSE caps[i - 1].stop + 1, Len(c))
    ELSE SubSeq(c, IF i = 1 THEN 1 ELSE caps[i - 1].stop + 1, caps[i].start - 1)
         \o (IF contains(caps[i].g3, f)
             THEN <<":">> \o caps[i].g1
                      \o to_string(DecimalValue(caps[i].g2) + Len(r) - Len(f))
                      \o <<":">> \o replacen(caps[i].g3, f, r)
             ELSE MatchText(c, caps[i]))
         \o RewriteEach(c, caps, i + 1, f, r)

\* C4: when more than one field keyed by key has a value containing search,
\* the final content has each of them rewritten at its own position and the
\* other fields keep their text (stated for a non-empty search and fields
\* that declare the byte length of their value).
C4_EveryEligibleRewritten ==
    (Returned /\ Cardinality(EligibleSet) >= 2 /\ find # <<>> /\ AllConsistent) =>
        fs[file_path] = RewriteEach(fs0[file_path], Caps0, 1, find, replace)

\* C5: when the text of the field being rewritten occurs verbatim more than
\* once, only its first textual occurrence is substituted; the others stay
\* (stated for a non-empty search).
C5_FirstTextualOccurrenceOnly ==
    (Returned /\ LastEligible /\ find # <<>>
        /\ Cardinality(Occurrences(fs0[file_path],
                                   MatchText(fs0[file_path], LastCap), 1)) >= 2) =>
        fs[file_path] = replacen(fs0[file_path],
                                 MatchText(fs0[file_path], LastCap),
                                 update_string)

\* C6: when no field keyed by key exists the call returns the error
\* NoSuchField to its caller and the file is not modified.
C6_MissingKeyIsTypedError ==
    (pc # "start" /\ Caps0 = <<>>) =>
        /\ Returned
        /\ result = "NoSuchField"
        /\ fs = fs0

\* C7: when N + |replace| - |search| < 0 for an eligible field the call
\* fails with InvalidLength and no negative declared length is written.
C7_NegativeLengthRejected ==
    (LastEligible
        /\ DecimalValue(LastCap.g2) + Len(replace) - Len(find) < 0) =>
        /\ result = "InvalidLength"
        /\ ~contains(fs[file_path], <<":">> \o key \o <<"-">>)


\* ------------------------------------------------------------------------
\* main and replace_files (specification SpecBatch)
\* ------------------------------------------------------------------------

InputPath == <<"i">>

OutputArg == <<"o">>

KeywordArg == <<"k">>

Join(dir, name) == IF dir = <<>> THEN name ELSE dir \o <<"/">> \o name

Names ==
    { <<"a">> \o torrent_rtorrent,
      <<"b">> \o torrent_rtorrent,
      <<"c", ".">> \o torrent,
      <<"n", ".", "t", "x", "t">> }

DirEntry == <<"<dir>">>

\* a file with a matching value, one without, one keyed by the user's
\* keyword, and a sub-directory
BatchEntries ==
    { Fld(directory, <<"1">>, <<"a">>),
      Fld(directory, <<"1">>, <<"b">>),
      Fld(KeywordArg, <<"1">>, <<"a">>),
      DirEntry }

BatchPairs == { <<<<"a">>, <<"c", "c", "c">>>>, <<<<"b">>, <<>>>> }

Listings ==
    UNION {[S -> BatchEntries] : S \in {T \in SUBSET Names : Cardinality(T) <= MaxFiles}}

NameOf(p) == CHOOSE n \in Names : Join(InputPath, n) = p

\* entries of the input directory (fs::read_dir)
read_dir(d) == {n \in Names : Join(d, n) \in (DOMAIN fs) \cup dirs}

\* Path::is_file
is_file(p) == p \in DOMAIN fs

has_extension(p) == \E i \in 1..Len(extensions) : ends_with(p, extensions[i])

\* variant: the rewrite is always applied to the file of the input directory
process_path_InPlace(copy, input_file, output_file) == input_file

\* the file replace_string_in_file is given: the copy when copying
process_path(copy, input_file, output_file) ==
    IF copy THEN output_file ELSE input_file

\* variant: the last result overwrites the earlier ones
fold_is_found_Last(acc, r) == r

\* if result { is_found = result; }
fold_is_found(acc, r) == IF r THEN r ELSE acc

\* reptool: getopts, then the construction of RepToolOption
MainReptool ==
    /\ bpc = "main"
    /\ program = "reptool"
    /\ option' = [input_path     |-> InputPath,
                  search_string  |-> args.search,
                  replace_string |-> args.replace,
                  output_path    |-> IF args.k # None THEN args.k
                                     ELSE IF args.o # None THEN args.o
                                     ELSE EmptyString,
                  keyword        |-> directory]
    /\ copy_enable' = (args.o # None)
    /\ bpc' = "replace_files"
    /\ UNCHANGED <<program, args, dirs, fs, fs0, files, is_found_files,
                   warned, reports, batch_result, fnvars>>

\* rtorrent_status_file_modifier: RepToolOption::parse() with its defaults
MainClap ==
    /\ bpc = "main"
    /\ program = "rtorrent_status_file_modifier"
    /\ option' = [input_path     |-> InputPath,
                  search_string  |-> args.search,
                  replace_string |-> args.replace,
                  output_path    |-> IF args.o # None THEN args.o
                                     ELSE EmptyString,
                  keyword        |-> IF args.k # None THEN args.k
                                     ELSE directory]
    /\ copy_enable' = (option'.output_path # EmptyString)
    /\ bpc' = "replace_files"
    /\ UNCHANGED <<program, args, dirs, fs, fs0, files, is_found_files,
                   warned, reports, batch_result, fnvars>>

\* replace_files up to the for loop: create the output directory, read_dir
EnterReplaceFiles ==
    /\ bpc = "replace_files"
    /\ dirs' = IF copy_enable /\ option.output_path \notin dirs
               THEN dirs \cup {option.output_path}
               ELSE dirs
    /\ is_found_files' = FALSE
    /\ files' = read_dir(option.input_path)
    /\ bpc' = "iter"
    /\ UNCHANGED <<program, args, option, copy_enable, fs, fs0, warned,
                   reports, batch_result, fnvars>>

\* one entry of the directory, in whatever order read_dir yields it, up to
\* and including the call of replace_string_in_file
VisitEntry ==
    /\ bpc = "iter"
    /\ \E n \in files :
        LET input_file  == Join(option.input_path, n)
            output_file == Join(option.output_path, n)
            wanted      == is_file(input_file) /\ has_extension(input_file)
            target      == process_path(copy_enable, input_file, output_file)
        IN  /\ files' = files \ {n}
            /\ fs' = IF wanted /\ copy_enable
                     THEN [p \in (DOMAIN fs) \cup {output_file} |->
                              IF p = output_file THEN fs[input_file] ELSE fs[p]]
                     ELSE fs
            /\ IF wanted /\ ends_with(target, torrent_rtorrent)
               THEN /\ bpc' = "call"
                    /\ pc' = "start"
                    /\ file_path' = target
                    /\ key' = option.keyword
                    /\ find' = option.search_string
                    /\ replace' = option.replace_string
                    /\ content' = <<>>
                    /\ find_content' = <<>>
                    /\ idx' = 0
                    /\ is_found' = FALSE
                    /\ update_string' = <<>>
                    /\ writes' = 0
                    /\ result' = None
               ELSE /\ bpc' = bpc
                    /\ UNCHANGED fnvars
    /\ UNCHANGED <<program, args, option, copy_enable, dirs, fs0,
                   is_found_files, warned, reports, batch_result>>

\* let result = replace_string_in_file(..)?; if result { is_found = result }
AfterCall ==
    /\ bpc = "call"
    /\ pc = "done"
    /\ is_found_files' = fold_is_found(is_found_files, result)
    /\ reports' = reports \cup {result}
    /\ pc' = "idle"
    /\ bpc' = "iter"
    /\ UNCHANGED <<program, args, option, copy_enable, dirs, fs, fs0, files,
                   warned, batch_result, file_path, key, find, replace,
                   content, find_content, idx, is_found, update_string,
                   writes, result>>

\* after the loop: the warning, then Ok(())
Finish ==
    /\ bpc = "iter"
    /\ files = {}
    /\ warned' = ~is_found_files
    /\ batch_result' = "Ok"
    /\ bpc' = "done"
    /\ UNCHANGED <<program, args, option, copy_enable, dirs, fs, fs0, files,
                   is_found_files, reports, fnvars>>

InitBatch ==
    /\ program \in {"reptool", "rtorrent_status_file_modifier"}
    /\ \E o \in {None, OutputArg}, k \in {None, KeywordArg}, sr \in BatchPairs :
          args = [o |-> o, k |-> k, search |-> sr[1], replace |-> sr[2]]
    /\ option = None
    /\ copy_enable = FALSE
    /\ \E l \in Listings :
          /\ dirs = {InputPath}
                      \cup {Join(InputPath, n) : n \in {m \in DOMAIN l : l[m] = DirEntry}}
          /\ fs = [p \in {Join(InputPath, n) : n \in {m \in DOMAIN l : l[m] # DirEntry}}
                      |-> l[NameOf(p)]]
    /\ fs0 = fs
    /\ files = {}
    /\ bpc = "main"
    /\ is_found_files = FALSE
    /\ warned = FALSE
    /\ reports = {}
    /\ batch_result = None
    /\ file_path = None
    /\ key = None
    /\ find = None
    /\ replace = None
    /\ pc = "idle"
    /\ content = <<>>
    /\ find_content = <<>>
    /\ idx = 0
    /\ is_found = FALSE
    /\ update_string = <<>>
    /\ writes = 0
    /\ result = None

NextBatch ==
    \/ MainReptool
    \/ MainClap
    \/ EnterReplaceFiles
    \/ VisitEntry
    \/ Open
    \/ Iterate
    \/ Return
    \/ AfterCall
    \/ Finish

SpecBatch == InitBatch /\ [][NextBatch]_vars


\* ------------------------------------------------------------------------
\* Properties of main and replace_files (specification SpecBatch)
\* ------------------------------------------------------------------------

InCall == pc \in {"start", "loop", "done", "panic"}

\* C8: "No matching found." is emitted at the end of the batch, and only
\* there, exactly when no processed file reported matched = true, and the
\* batch then still returns Ok.
C8_BatchWarning ==
    /\ bpc # "done" => ~warned
    /\ bpc = "done" =>
          /\ warned <=> (TRUE \notin reports)
          /\ batch_result = "Ok"

C8_Witness ==
    /\ bpc = "done"
    /\ reports = {FALSE}
    /\ warned
    /\ batch_result = "Ok"

\* C9: with an output directory configured, each candidate is copied first
\* and the rewrite is given the copy; every file of the input directory
\* keeps the content it had before the run, at every point of the batch.
C9_StagingLeavesOriginals ==
    (args.o # None /\ bpc # "main") =>
        /\ \A p \in DOMAIN fs0 : p \in DOMAIN fs /\ fs[p] = fs0[p]
        /\ InCall =>
              /\ file_path \notin DOMAIN fs0
              /\ file_path \in DOMAIN fs
              /\ pc = "start" =>
                    \E n \in Names :
                        /\ Join(InputPath, n) \in DOMAIN fs0
                        /\ file_path = Join(option.output_path, n)
                        /\ fs[file_path] = fs0[Join(InputPath, n)]

C9_Witness ==
    /\ args.o # None
    /\ bpc = "done"
    /\ \E n \in Names :
          /\ Join(InputPath, n) \in DOMAIN fs0
          /\ Join(option.output_path, n) \in DOMAIN fs
          /\ fs[Join(option.output_path, n)] # fs0[Join(InputPath, n)]
          /\ fs[Join(InputPath, n)] = fs0[Join(InputPath, n)]

\* C10: the key given to replace_string_in_file is the keyword option when
\* one is supplied and "directory" otherwise, and supplying a keyword leaves
\* the configured output path as the output option set it.
C10_KeyOverride ==
    bpc # "main" =>
        /\ option.keyword = (IF args.k # None THEN args.k ELSE directory)
        /\ option.output_path = (IF args.o # None THEN args.o ELSE EmptyString)
        /\ InCall => key = (IF args.k # None THEN args.k ELSE directory)

====
